---- MODULE Spec2Model ----
(***************************************************************************)
(* A model of process.py, the Open Science Catalog builder: four tables    *)
(* (themes, variables, projects, products) are turned into node objects,   *)
(* linked into the tree Catalog -> Theme -> Variable -> Product (Projects  *)
(* hang under Themes), summarised bottom-up and written to a fresh output  *)
(* directory.                                                              *)
(*                                                                         *)
(* Text is a sequence of one-character strings, so that slugify and strip  *)
(* are computed.  A "Year.Month" field is the record of its two numbers,   *)
(* the empty field is NoDate.  Objects are named by their position in the  *)
(* list that holds them (theme_collections[i], ...).                       *)
(***************************************************************************)
EXTENDS Integers, Sequences, FiniteSets, TLC

VARIABLES
    themes,                 \* rows of the themes file
    variables,              \* rows of the variables file
    projects,               \* rows of the projects file
    products,               \* rows of the products file
    fs0,                    \* the output directory before the run
    fs,                     \* the output directory now
    theme_collections,
    theme_map,
    variable_collections,
    variable_map,
    product_items,
    project_items,
    catalog,
    metrics,
    pc,                     \* the statement main() is at
    error                   \* the exception that ended the run, or NoError

vars == <<themes, variables, projects, products, fs0, fs, theme_collections,
          theme_map, variable_collections, variable_map, product_items,
          project_items, catalog, metrics, pc, error>>

-----------------------------------------------------------------------------
(* Bounds *)

MaxRows == 5        \* rows over the four input tables together
MaxDepth == 4       \* nesting of the JSON geometry values

-----------------------------------------------------------------------------
(* Text *)

UpperCase == {"C", "L", "S", "M"}
LowerCase == {"c", "l", "s", "m", "a"}
Alnum == UpperCase \cup LowerCase
WhiteSpace == {" "}

ToLower(c) ==
    CASE c = "C" -> "c"
      [] c = "L" -> "l"
      [] c = "S" -> "s"
      [] c = "M" -> "m"
      [] OTHER -> c

RECURSIVE LStrip(_, _)
LStrip(s, drop) ==
    IF s # <<>> /\ Head(s) \in drop THEN LStrip(Tail(s), drop) ELSE s

RECURSIVE RStrip(_, _)
RStrip(s, drop) ==
    IF s # <<>> /\ s[Len(s)] \in drop
    THEN RStrip(SubSeq(s, 1, Len(s) - 1), drop)
    ELSE s

\* str.strip()
Strip(s) == RStrip(LStrip(s, WhiteSpace), WhiteSpace)

RECURSIVE Collapse(_)
Collapse(s) ==
    IF Len(s) < 2 THEN s
    ELSE IF s[1] = "-" /\ s[2] = "-" THEN Collapse(Tail(s))
    ELSE <<s[1]>> \o Collapse(Tail(s))

\* slugify(): lower case, every run of other characters becomes one "-",
\* no "-" at either end
slugify(s) ==
    LET mapped == [i \in 1..Len(s) |->
                     IF s[i] \in Alnum THEN ToLower(s[i]) ELSE "-"]
    IN  RStrip(LStrip(Collapse(mapped), {"-"}), {"-"})

Blank == <<>>
Climate == <<"C", "l">>
ClimateAlt == <<"c", "l", " ">>
Land == <<"L", "a">>
SoilMoisture == <<"S", " ", "M">>
SoilMoistureAlt == <<"s", "-", "m">>
SeaLevel == <<"S", " ", "L">>

-----------------------------------------------------------------------------
(* Values *)

None == [kind |-> "None"]
NoError == "NoError"

\* the result of a call: a value, or the exception it raised
Return(v) == [exc |-> NoError, val |-> v]
Raise(e) == [exc |-> e, val |-> None]

\* a field of a row that holds "Year.Month", or nothing
EmptyField == [kind |-> "empty"]
YearMonth(y, m) == [kind |-> "ym", year |-> y, month |-> m]

\* datetime(year, month, day): ValueError outside the calendar
datetime(y, m, d) ==
    IF m \in 1..12 /\ d \in 1..28
    THEN Return([kind |-> "datetime", year |-> y, month |-> m, day |-> d])
    ELSE Raise("ValueError")

\* datetime.isoformat() and dateutil's parse() of that text
isoformat(dt) == [kind |-> "iso", year |-> dt.year, month |-> dt.month,
                 day |-> dt.day]
parse(text) == [kind |-> "datetime", year |-> text.year, month |-> text.month,
                day |-> text.day]

\* JSON values: a number, or an array of values
Num == [t |-> "num"]
Arr(elems) == [t |-> "list", v |-> elems]

\* the arrays the Polygon column is drawn from: coordinates are two or three
\* numbers, and an array holds nothing, one array, or the same array twice
RECURSIVE JsonValues(_)
JsonValues(d) ==
    IF d = 0 THEN {Num}
    ELSE LET sub == JsonValues(d - 1) \ {Num}
         IN  {Num, Arr(<<>>), Arr(<<Num, Num>>), Arr(<<Num, Num, Num>>)}
                 \cup sub
                 \cup {Arr(<<x>>) : x \in sub}
                 \cup {Arr(<<x, x>>) : x \in sub}

\* the Polygon column of a product row
EmptySource == [kind |-> "empty"]
MultipolygonSource == [kind |-> "Multipolygon"]
MalformedSource == [kind |-> "malformed"]
JsonSource(v) == [kind |-> "json", value |-> v]

GeometrySources ==
    {EmptySource, MultipolygonSource, MalformedSource}
        \cup {JsonSource(v) : v \in JsonValues(MaxDepth)}

-----------------------------------------------------------------------------
(* Helpers of process.py *)

RECURSIVE get_depth(_)
get_depth(maybe_list) ==
    IF maybe_list.t = "list"
    THEN IF maybe_list.v = <<>>
         THEN Raise("IndexError")
         ELSE LET inner == get_depth(maybe_list.v[1])
              IN  IF inner.exc # NoError THEN inner ELSE Return(inner.val + 1)
    ELSE Return(0)

NumSlots == 6

get_themes(obj) ==
    SelectSeq([i \in 1..NumSlots |-> obj.Themes[i]], LAMBDA t : t # Blank)

parse_date(source) ==
    IF source.kind = "empty" THEN Return(None)
    ELSE datetime(source.year, source.month + 1, 1)

\* pygeoif: a coordinate is two or three numbers
IsCoordinate(args) ==
    /\ Len(args) \in 2..3
    /\ \A i \in 1..Len(args) : args[i].t = "num"

\* pygeoif: a ring is a non-empty array of coordinates
IsRing(v) ==
    /\ v.t = "list"
    /\ v.v # <<>>
    /\ \A i \in 1..Len(v.v) : v.v[i].t = "list" /\ IsCoordinate(v.v[i].v)

Point(args) ==
    IF IsCoordinate(args)
    THEN Return([kind |-> "Point", coordinates |-> args])
    ELSE Raise("TypeError")

Polygon(shell, holes) ==
    IF IsRing(shell) /\ \A i \in 1..Len(holes) : IsRing(holes[i])
    THEN Return([kind |-> "Polygon", shell |-> shell, holes |-> holes])
    ELSE Raise("ValueError")

get_geometry(source) ==
    IF source.kind = "empty" THEN Return(None)
    ELSE IF source.kind = "Multipolygon" THEN Return(None)
    ELSE IF source.kind = "malformed" THEN Return(None)
    ELSE LET raw_geom == source.value
             depth == get_depth(raw_geom)
         IN  IF depth.exc # NoError THEN depth
             ELSE IF depth.val = 1 THEN Point(raw_geom.v)
             ELSE IF depth.val = 3
                  THEN Polygon(Head(raw_geom.v), Tail(raw_geom.v))
             ELSE Return(None)

-----------------------------------------------------------------------------
(* Node builders *)

product_to_item(obj) ==
    LET start == IF obj.Start.kind = "empty" THEN Return(None)
                 ELSE parse_date(obj.Start)
        end == IF obj.End.kind = "empty" THEN Return(None)
               ELSE parse_date(obj.End)
        geom == get_geometry(obj.Polygon)
    IN  IF start.exc # NoError THEN Raise(start.exc)
        ELSE IF end.exc # NoError THEN Raise(end.exc)
        ELSE IF geom.exc # NoError THEN Raise(geom.exc)
        ELSE Return(
            [id |-> <<"product-">> \o obj.ID,
             geometry |-> geom.val,
             datetime |-> start.val,
             properties |->
                 [start_datetime |-> IF start.val.kind = "None" THEN None
                                     ELSE isoformat(start.val),
                  end_datetime |-> IF end.val.kind = "None" THEN None
                                   ELSE isoformat(end.val),
                  variable |-> obj.Variable,
                  type |-> "Product"]])

project_to_item(obj) ==
    [id |-> <<"project-">> \o obj.Project_ID,
     properties |-> [themes |-> get_themes(obj), type |-> "Project"],
     collection_links |-> <<>>,
     collection_id |-> None]

theme_to_collection(obj) ==
    [id |-> Strip(obj.theme),
     children |-> <<>>,
     items |-> <<>>,
     extra_fields |-> [type |-> "Theme"]]

variable_to_collection(obj) ==
    [id |-> Strip(obj.variable),
     items |-> <<>>,
     extra_fields |-> [theme |-> obj.theme, type |-> "Variable"]]

\* {slugify(coll.id): coll for coll in colls}: a later collection replaces an
\* earlier one under the same key
SlugMap(colls) ==
    [key \in {slugify(colls[i].id) : i \in 1..Len(colls)} |->
        CHOOSE i \in 1..Len(colls) :
            /\ slugify(colls[i].id) = key
            /\ \A j \in 1..Len(colls) : slugify(colls[j].id) = key => j <= i]

\* MultiCollectionItem.set_collection: the earlier collection links stay
set_collection(item, coll_index, coll) ==
    [item EXCEPT !.collection_links = Append(@, coll_index),
                 !.collection_id = coll.id]

-----------------------------------------------------------------------------
(* The loops of main() *)

\* for coll in variable_collections: theme_map[...].add_child(coll)
RECURSIVE PlaceVariablesFrom(_, _)
PlaceVariablesFrom(k, tcs) ==
    IF k > Len(variable_collections) THEN [exc |-> NoError, val |-> tcs]
    ELSE LET key == slugify(variable_collections[k].extra_fields.theme)
         IN  IF key \notin DOMAIN theme_map
             THEN [exc |-> "KeyError", val |-> tcs]
             ELSE PlaceVariablesFrom(k + 1,
                      [tcs EXCEPT ![theme_map[key]].children = Append(@, k)])

\* the local variable_coll before its first assignment
Unbound == 0

\* for item in product_items: look the variable up, then add_item
RECURSIVE PlaceProductsFrom(_, _, _)
PlaceProductsFrom(k, variable_coll, vcs) ==
    IF k > Len(product_items) THEN [exc |-> NoError, val |-> vcs]
    ELSE LET key == slugify(product_items[k].properties.variable)
             found == IF key \in DOMAIN variable_map
                      THEN variable_map[key]
                      ELSE variable_coll
         IN  IF found = Unbound
             THEN [exc |-> "UnboundLocalError", val |-> vcs]
             ELSE PlaceProductsFrom(k + 1, found,
                      [vcs EXCEPT ![found].items = Append(@, k)])

\* for theme in item.properties["osc:themes"]: theme_map[...].add_item(item)
RECURSIVE AddProjectFrom(_, _, _)
AddProjectFrom(j, t, st) ==
    LET names == st.pis[j].properties.themes
    IN  IF t > Len(names) THEN st
        ELSE LET key == slugify(names[t])
             IN  IF key \notin DOMAIN theme_map
                 THEN [st EXCEPT !.exc = "KeyError"]
                 ELSE LET ti == theme_map[key]
                      IN  AddProjectFrom(j, t + 1,
                              [st EXCEPT
                                 !.tcs[ti].items = Append(@, j),
                                 !.pis[j] = set_collection(@, ti, st.tcs[ti])])

\* for item in project_items: ...
RECURSIVE PlaceProjectsFrom(_, _)
PlaceProjectsFrom(j, st) ==
    IF j > Len(st.pis) \/ st.exc # NoError THEN st
    ELSE PlaceProjectsFrom(j + 1, AddProjectFrom(j, 1, st))

\* for i, x in enumerate(xs, start=1): i after the loop; an empty loop leaves
\* i as it was
EnumerateLast(i, xs) == IF xs = <<>> THEN i ELSE Len(xs)

RECURSIVE SetToSortedSeq(_)
SetToSortedSeq(S) ==
    IF S = {} THEN <<>>
    ELSE LET m == CHOOSE x \in S : \A y \in S : x <= y
         IN  <<m>> \o SetToSortedSeq(S \ {m})

\* sorted(years)
sorted(S) == SetToSortedSeq(S)

SeqToSet(q) == {q[i] : i \in 1..Len(q)}

RECURSIVE SumSeq(_)
SumSeq(q) == IF q = <<>> THEN 0 ELSE Head(q) + SumSeq(Tail(q))

\* VariableSummary with i counted inside the `if`: only dated Products count
VariableSummaryCountsDated(coll) ==
    LET items == coll.items
        dated == {m \in 1..Len(items) :
                     product_items[items[m]].properties.start_datetime.kind # "None"}
        years == {parse(product_items[items[n]].properties.start_datetime).year :
                     n \in dated}
    IN  [coll EXCEPT !.extra_fields =
            [theme |-> @.theme, type |-> @.type,
             years |-> sorted(years), numberOfProducts |-> Cardinality(dated)]]

\* the summary of one Variable collection
VariableSummary(coll) ==
    LET items == coll.items
        years == {parse(product_items[items[n]].properties.start_datetime).year :
                     n \in {m \in 1..Len(items) :
                         product_items[items[m]].properties.start_datetime.kind # "None"}}
        i == EnumerateLast(0, items)
    IN  [coll EXCEPT !.extra_fields =
            [theme |-> @.theme, type |-> @.type,
             years |-> sorted(years), numberOfProducts |-> i]]

\* ThemeSummary with `=` for `+=` and for update(): the last child alone
ThemeSummaryLastChild(coll) ==
    LET subs == [n \in 1..Len(coll.children) |->
                    variable_collections[coll.children[n]]]
        last == subs[Len(subs)].extra_fields
        i == EnumerateLast(0, subs)
        i2 == EnumerateLast(i, coll.items)
    IN  [coll EXCEPT !.extra_fields =
            [type |-> @.type,
             years |-> IF Len(subs) = 0 THEN <<>> ELSE last.years,
             numberOfProducts |-> IF Len(subs) = 0 THEN 0 ELSE last.numberOfProducts,
             numberOfVariables |-> i,
             numberOfProjects |-> i2]]

\* the summary of one Theme collection
ThemeSummary(coll) ==
    LET subs == [n \in 1..Len(coll.children) |->
                    variable_collections[coll.children[n]]]
        years == UNION {SeqToSet(subs[n].extra_fields.years) :
                            n \in 1..Len(subs)}
        number_of_products ==
            SumSeq([n \in 1..Len(subs) |-> subs[n].extra_fields.numberOfProducts])
        i == EnumerateLast(0, subs)
        i2 == EnumerateLast(i, coll.items)
    IN  [coll EXCEPT !.extra_fields =
            [type |-> @.type,
             years |-> sorted(years),
             numberOfProducts |-> number_of_products,
             numberOfVariables |-> i,
             numberOfProjects |-> i2]]

\* catalog.extra_fields
CatalogSummary ==
    LET tcs == theme_collections
        years == UNION {SeqToSet(tcs[n].extra_fields.years) : n \in 1..Len(tcs)}
        number_of_products ==
            SumSeq([n \in 1..Len(tcs) |-> tcs[n].extra_fields.numberOfProducts])
        number_of_variables ==
            SumSeq([n \in 1..Len(tcs) |-> tcs[n].extra_fields.numberOfVariables])
        i == EnumerateLast(0, tcs)
    IN  [numberOfProducts |-> number_of_products,
         numberOfProjects |-> Len(project_items),
         numberOfVariables |-> number_of_variables,
         numberOfThemes |-> i,
         years |-> sorted(years)]

-----------------------------------------------------------------------------
(* Output *)

MetricsPath == <<"metrics.json">>
CatalogPath == <<"catalog.json">>

\* f"{type.lower()}s"
TypeDir(type) ==
    CASE type = "Theme" -> "themes"
      [] type = "Variable" -> "variables"
      [] type = "Product" -> "products"
      [] type = "Project" -> "projects"

\* CustomLayoutStrategy: collection_func and item_func
collection_func(coll) == <<TypeDir(coll.extra_fields.type)>> \o slugify(coll.id)
item_func(item) == <<TypeDir(item.properties.type)>> \o item.id

\* what a file holds: what was there before the run, the metrics, or a node
OldFile == [kind |-> "old", index |-> 0]
MetricsFile == [kind |-> "metrics", index |-> 0]
NodeFile(type, index) == [kind |-> type, index |-> index]

Write1(path, content) == [path |-> path, content |-> content]

RECURSIVE Flatten(_)
Flatten(qq) == IF qq = <<>> THEN <<>> ELSE Head(qq) \o Flatten(Tail(qq))

\* Collection.save of a Variable: its items, then itself
VariableWrites(vi) ==
    LET coll == variable_collections[vi]
    IN  [n \in 1..Len(coll.items) |->
            Write1(item_func(product_items[coll.items[n]]),
                   NodeFile("Product", coll.items[n]))]
        \o <<Write1(collection_func(coll), NodeFile("Variable", vi))>>

\* Collection.save of a Theme: its children, its items, then itself
ThemeWrites(ti) ==
    LET coll == theme_collections[ti]
    IN  Flatten([n \in 1..Len(coll.children) |-> VariableWrites(coll.children[n])])
        \o [n \in 1..Len(coll.items) |->
               Write1(item_func(project_items[coll.items[n]]),
                      NodeFile("Project", coll.items[n]))]
        \o <<Write1(collection_func(coll), NodeFile("Theme", ti))>>

\* catalog.normalize_and_save: every node reachable from the root, in order
CatalogWrites ==
    Flatten([n \in 1..Len(catalog.children) |-> ThemeWrites(catalog.children[n])])
    \o <<Write1(CatalogPath, NodeFile("Catalog", 0))>>

RECURSIVE ApplyWrites(_, _)
ApplyWrites(files, writes) ==
    IF writes = <<>> THEN files
    ELSE ApplyWrites(
             [p \in DOMAIN files \cup {Head(writes).path} |->
                 IF p = Head(writes).path THEN Head(writes).content ELSE files[p]],
             Tail(writes))

NoFiles == [p \in {} |-> OldFile]
AbsentDir == [exists |-> FALSE, files |-> NoFiles]
EmptyDir == [exists |-> TRUE, files |-> NoFiles]
UsedDir == [exists |-> TRUE, files |-> [p \in {MetricsPath, CatalogPath} |-> OldFile]]
OutDirStates == {AbsentDir, EmptyDir, UsedDir}

-----------------------------------------------------------------------------
(* Input tables                                                            *)
(* A row holds the columns that decide the tree and its summaries; titles, *)
(* descriptions and links are copied through and left out, and the dates   *)
(* of a project row are taken to be ones dateutil parses.                  *)

ThemeRows == {[theme |-> n] : n \in {Climate, ClimateAlt, Land}}

VariableRow(variable, theme) == [variable |-> variable, theme |-> theme]

VariableRows ==
    {VariableRow(SoilMoisture, ClimateAlt),
     VariableRow(SeaLevel, ClimateAlt),
     VariableRow(SoilMoisture, Land)}

ProductRow(id, variable, start, end, polygon) ==
    [ID |-> id, Variable |-> variable, Start |-> start, End |-> end,
     Polygon |-> polygon]

\* products of the hierarchy runs: no geometry, no end date
ProductRows ==
    {ProductRow(<<"1">>, SoilMoistureAlt, st, EmptyField, EmptySource) :
        st \in {EmptyField, YearMonth(2019, 3), YearMonth(2020, 7)}}
    \cup {ProductRow(<<"2">>, SeaLevel, YearMonth(2019, 3), EmptyField, EmptySource)}

Slots(a, b) == <<a, b, Blank, Blank, Blank, Blank>>

ProjectRow(id, slots) == [Project_ID |-> id, Themes |-> slots]

ProjectRows ==
    {ProjectRow(<<"1">>, Slots(Blank, Blank)),
     ProjectRow(<<"1">>, Slots(Climate, Land)),
     ProjectRow(<<"2">>, Slots(Blank, Land)),
     ProjectRow(<<"2">>, Slots(Climate, ClimateAlt))}

DateFields ==
    {EmptyField} \cup {YearMonth(y, m) : y \in {2019, 2020}, m \in 0..12}

\* products of the builder runs: one row, every date or every geometry
BuilderRows ==
    {ProductRow(<<"1">>, SoilMoisture, st, en, EmptySource) :
        st \in DateFields, en \in DateFields}
    \cup {ProductRow(<<"1">>, SoilMoisture, EmptyField, EmptyField, g) :
            g \in GeometrySources}

-----------------------------------------------------------------------------
(* The run *)

Fresh ==
    /\ theme_collections = <<>>
    /\ theme_map = <<>>
    /\ variable_collections = <<>>
    /\ variable_map = <<>>
    /\ product_items = <<>>
    /\ project_items = <<>>
    /\ catalog = [children |-> <<>>, extra_fields |-> None, links |-> <<>>]
    /\ metrics = None
    /\ pc = "build"
    /\ error = NoError

\* runs over small tables, MaxRows rows in all
InitHierarchy ==
    /\ \E a \in 0..MaxRows : \E b \in 0..(MaxRows - a) :
       \E c \in 0..(MaxRows - a - b) : \E d \in 0..(MaxRows - a - b - c) :
          /\ themes \in [1..a -> ThemeRows]
          /\ variables \in [1..b -> VariableRows]
          /\ products \in [1..c -> ProductRows]
          /\ projects \in [1..d -> ProjectRows]
    /\ fs0 \in OutDirStates
    /\ fs = fs0
    /\ Fresh

\* runs over one product row under one theme and one variable
InitBuilder ==
    /\ themes = <<[theme |-> Climate]>>
    /\ variables = <<VariableRow(SoilMoisture, Climate)>>
    /\ products \in {<<r>> : r \in BuilderRows}
    /\ projects = <<>>
    /\ fs0 = AbsentDir
    /\ fs = fs0
    /\ Fresh

Init == InitHierarchy \/ InitBuilder

Abort(exc) ==
    /\ pc' = "aborted"
    /\ error' = exc

Goto(label) ==
    /\ pc' = label
    /\ error' = error

inputs == <<themes, variables, projects, products, fs0>>

\* lines 233-268: the catalog, the collections, the maps and the items
BuildNodes ==
    /\ pc = "build"
    /\ LET tcs == [i \in 1..Len(themes) |-> theme_to_collection(themes[i])]
           vcs == [i \in 1..Len(variables) |-> variable_to_collection(variables[i])]
           made == [i \in 1..Len(products) |-> product_to_item(products[i])]
           bad == {i \in 1..Len(products) : made[i].exc # NoError}
           first == CHOOSE i \in bad : \A j \in bad : i <= j
       IN  /\ theme_collections' = tcs
           /\ theme_map' = SlugMap(tcs)
           /\ variable_collections' = vcs
           /\ variable_map' = SlugMap(vcs)
           /\ IF bad # {}
              THEN /\ Abort(made[first].exc)
                   /\ UNCHANGED <<product_items, project_items>>
              ELSE /\ product_items' = [i \in 1..Len(products) |-> made[i].val]
                   /\ project_items' =
                          [i \in 1..Len(projects) |-> project_to_item(projects[i])]
                   /\ Goto("place_variables")
    /\ UNCHANGED <<inputs, fs, catalog, metrics>>

\* lines 270-273
PlaceVariables ==
    /\ pc = "place_variables"
    /\ LET r == PlaceVariablesFrom(1, theme_collections)
       IN  /\ theme_collections' = r.val
           /\ IF r.exc # NoError THEN Abort(r.exc) ELSE Goto("place_products")
    /\ UNCHANGED <<inputs, fs, theme_map, variable_collections, variable_map,
                   product_items, project_items, catalog, metrics>>

\* lines 275-281
PlaceProducts ==
    /\ pc = "place_products"
    /\ LET r == PlaceProductsFrom(1, Unbound, variable_collections)
       IN  /\ variable_collections' = r.val
           /\ IF r.exc # NoError THEN Abort(r.exc) ELSE Goto("place_projects")
    /\ UNCHANGED <<inputs, fs, theme_collections, theme_map, variable_map,
                   product_items, project_items, catalog, metrics>>

\* lines 283-286
PlaceProjects ==
    /\ pc = "place_projects"
    /\ LET r == PlaceProjectsFrom(1, [exc |-> NoError, tcs |-> theme_collections,
                                      pis |-> project_items])
       IN  /\ theme_collections' = r.tcs
           /\ project_items' = r.pis
           /\ IF r.exc # NoError THEN Abort(r.exc) ELSE Goto("add_children")
    /\ UNCHANGED <<inputs, fs, theme_map, variable_collections, variable_map,
                   product_items, catalog, metrics>>

\* line 288
AddChildren ==
    /\ pc = "add_children"
    /\ catalog' = [catalog EXCEPT
                      !.children = [i \in 1..Len(theme_collections) |-> i]]
    /\ Goto("summarize_variables")
    /\ UNCHANGED <<inputs, fs, theme_collections, theme_map, variable_collections,
                   variable_map, product_items, project_items, metrics>>

\* lines 291-303
SummarizeVariables ==
    /\ pc = "summarize_variables"
    /\ variable_collections' =
           [i \in 1..Len(variable_collections) |->
               VariableSummary(variable_collections[i])]
    /\ Goto("summarize_themes")
    /\ UNCHANGED <<inputs, fs, theme_collections, theme_map, variable_map,
                   product_items, project_items, catalog, metrics>>

\* lines 305-320
SummarizeThemes ==
    /\ pc = "summarize_themes"
    /\ theme_collections' =
           [i \in 1..Len(theme_collections) |-> ThemeSummary(theme_collections[i])]
    /\ Goto("summarize_catalog")
    /\ UNCHANGED <<inputs, fs, theme_map, variable_collections, variable_map,
                   product_items, project_items, catalog, metrics>>

\* lines 322-337
SummarizeCatalog ==
    /\ pc = "summarize_catalog"
    /\ catalog' = [catalog EXCEPT !.extra_fields = CatalogSummary]
    /\ Goto("metrics")
    /\ UNCHANGED <<inputs, fs, theme_collections, theme_map, variable_collections,
                   variable_map, product_items, project_items, metrics>>

\* lines 339-375
BuildMetrics ==
    /\ pc = "metrics"
    /\ metrics' =
           [summary |-> catalog.extra_fields,
            themes |->
                [n \in 1..Len(catalog.children) |->
                    LET theme_coll == theme_collections[catalog.children[n]]
                    IN  [name |-> theme_coll.id,
                         summary |-> theme_coll.extra_fields,
                         variables |->
                             [m \in 1..Len(theme_coll.children) |->
                                 LET var_coll ==
                                         variable_collections[theme_coll.children[m]]
                                 IN  [name |-> var_coll.id,
                                      summary |-> var_coll.extra_fields]]]]]
    /\ Goto("makedirs")
    /\ UNCHANGED <<inputs, fs, theme_collections, theme_map, variable_collections,
                   variable_map, product_items, project_items, catalog>>

\* MakeDirs as os.makedirs(out_dir, exist_ok=True)
MakeDirsExistOk ==
    /\ pc = "makedirs"
    /\ fs' = [fs EXCEPT !.exists = TRUE]
    /\ Goto("write_metrics")
    /\ UNCHANGED <<inputs, theme_collections, theme_map, variable_collections,
                   variable_map, product_items, project_items, catalog, metrics>>

\* lines 377-378: os.makedirs(out_dir) without exist_ok
MakeDirs ==
    /\ pc = "makedirs"
    /\ IF fs.exists
       THEN /\ Abort("FileExistsError")
            /\ fs' = fs
       ELSE /\ fs' = [fs EXCEPT !.exists = TRUE]
            /\ Goto("write_metrics")
    /\ UNCHANGED <<inputs, theme_collections, theme_map, variable_collections,
                   variable_map, product_items, project_items, catalog, metrics>>

\* lines 380-383
WriteMetrics ==
    /\ pc = "write_metrics"
    /\ fs' = [fs EXCEPT !.files =
                 ApplyWrites(@, <<Write1(MetricsPath, MetricsFile)>>)]
    /\ catalog' = [catalog EXCEPT !.links = Append(@, MetricsPath)]
    /\ Goto("save")
    /\ UNCHANGED <<inputs, theme_collections, theme_map, variable_collections,
                   variable_map, product_items, project_items, metrics>>

\* lines 392-405
NormalizeAndSave ==
    /\ pc = "save"
    /\ fs' = [fs EXCEPT !.files = ApplyWrites(@, CatalogWrites)]
    /\ Goto("done")
    /\ UNCHANGED <<inputs, theme_collections, theme_map, variable_collections,
                   variable_map, product_items, project_items, catalog, metrics>>

Next ==
    \/ BuildNodes
    \/ PlaceVariables
    \/ PlaceProducts
    \/ PlaceProjects
    \/ AddChildren
    \/ SummarizeVariables
    \/ SummarizeThemes
    \/ SummarizeCatalog
    \/ BuildMetrics
    \/ MakeDirs
    \/ WriteMetrics
    \/ NormalizeAndSave

Spec == Init /\ [][Next]_vars

-----------------------------------------------------------------------------
(* Vocabulary of the properties *)

Indices(q) == 1..Len(q)

\* how often x occurs in the list q
Count(q, x) == Cardinality({n \in Indices(q) : q[n] = x})

\* the stages of a run
PastBuild == pc # "build"
BuildFailed == pc = "aborted" /\ Len(product_items) # Len(products)
PastHierarchy ==
    pc \in {"add_children", "summarize_variables", "summarize_themes",
            "summarize_catalog", "metrics", "makedirs", "write_metrics",
            "save", "done"}
    \/ (pc = "aborted" /\ error = "FileExistsError")
PastProducts == PastHierarchy \/ pc = "place_projects"
Aggregated ==
    pc \in {"metrics", "makedirs", "write_metrics", "save", "done"}
    \/ (pc = "aborted" /\ error = "FileExistsError")
WroteOutput == pc \in {"write_metrics", "save", "done"}

\* the normalized keys of the rows, taken from the tables themselves
ThemeKeys == {slugify(Strip(themes[i].theme)) : i \in Indices(themes)}
VariableKeys == {slugify(Strip(variables[i].variable)) : i \in Indices(variables)}

UnresolvedProduct(k) == slugify(products[k].Variable) \notin VariableKeys
UnresolvedVariable(v) == slugify(variables[v].theme) \notin ThemeKeys
UnresolvedProject(j) ==
    \E n \in 1..NumSlots :
        /\ projects[j].Themes[n] # Blank
        /\ slugify(projects[j].Themes[n]) \notin ThemeKeys

-----------------------------------------------------------------------------
(* Properties *)

\* C1: a Product whose variable name resolves to no Variable is, whatever
\* its position in the table, in no Variable's item list after the
\* hierarchy pass, and it does not end the run.
C1_UnresolvedProductDropped ==
    /\ error # "UnboundLocalError"
    /\ PastProducts =>
          \A k \in Indices(products) :
              UnresolvedProduct(k) =>
                  \A v \in Indices(variable_collections) :
                      Count(variable_collections[v].items, k) = 0

\* the ids of the Projects that are an item of at least one Theme
ReachableProjectIds ==
    {project_items[j].id :
        j \in {x \in Indices(project_items) :
                 \E ti \in Indices(theme_collections) :
                     Count(theme_collections[ti].items, x) > 0}}

\* C2: after aggregation the Catalog's numberOfProjects is the number of
\* distinct Project ids reachable from some Theme.
C2_CatalogCountsDistinctProjects ==
    Aggregated =>
        catalog.extra_fields.numberOfProjects = Cardinality(ReachableProjectIds)

\* C3: after aggregation every Theme's numberOfProjects is the number of
\* Project items attached to it, whatever its Variable children.
C3_ThemeCountsItsProjects ==
    Aggregated =>
        \A ti \in Indices(theme_collections) :
            theme_collections[ti].extra_fields.numberOfProjects
                = Len(theme_collections[ti].items)

\* C4: after the hierarchy pass a Project is in a Theme's item list exactly
\* once if one of its non-blank slots normalizes to the Theme's key, and not
\* at all otherwise.
C4_ProjectOncePerMatchingTheme ==
    PastHierarchy =>
        \A j \in Indices(projects) : \A ti \in Indices(theme_collections) :
            Count(theme_collections[ti].items, j) =
                IF \E n \in 1..NumSlots :
                       /\ projects[j].Themes[n] # Blank
                       /\ slugify(projects[j].Themes[n])
                              = slugify(theme_collections[ti].id)
                THEN 1 ELSE 0

\* the start-date years of the Products attached to Variable v
AttachedYears(v) ==
    LET items == variable_collections[v].items
    IN  {product_items[items[n]].datetime.year :
            n \in {m \in Indices(items) :
                     product_items[items[m]].datetime.kind # "None"}}

\* C5: after aggregation every Variable's years are the distinct start-date
\* years of the Products attached to it and its numberOfProducts is their
\* number, zero included.
C5_VariableSummary ==
    Aggregated =>
        \A v \in Indices(variable_collections) :
            LET extra == variable_collections[v].extra_fields
            IN  /\ SeqToSet(extra.years) = AttachedYears(v)
                /\ Len(extra.years) = Cardinality(AttachedYears(v))
                /\ extra.numberOfProducts = Len(variable_collections[v].items)

\* C5 witness: two Products starting 2019.03 and 2020.07 under one Variable
\* give years 2019, 2020 and count 2.
C5_Witness ==
    /\ pc = "done"
    /\ \E v \in Indices(variable_collections) :
          /\ Len(variable_collections[v].items) = 2
          /\ {products[k].Start : k \in SeqToSet(variable_collections[v].items)}
                 = {YearMonth(2019, 3), YearMonth(2020, 7)}
          /\ variable_collections[v].extra_fields.years = <<2019, 2020>>
          /\ variable_collections[v].extra_fields.numberOfProducts = 2

\* the Variables whose theme name resolves to Theme ti
VariablesOf(ti) ==
    {v \in Indices(variables) :
        /\ slugify(variables[v].theme) \in DOMAIN theme_map
        /\ theme_map[slugify(variables[v].theme)] = ti}

\* C6: after aggregation every Theme's numberOfProducts is the sum of the
\* numberOfProducts of its Variable children, and its years are the union
\* of theirs.
C6_ThemeSummary ==
    Aggregated =>
        \A ti \in Indices(theme_collections) :
            LET kids == SetToSortedSeq(VariablesOf(ti))
                extra == theme_collections[ti].extra_fields
            IN  /\ extra.numberOfProducts =
                       SumSeq([n \in Indices(kids) |->
                           variable_collections[kids[n]].extra_fields.numberOfProducts])
                /\ extra.numberOfProducts =
                       SumSeq([n \in Indices(kids) |->
                           Len(variable_collections[kids[n]].items)])
                /\ SeqToSet(extra.years) =
                       UNION {SeqToSet(variable_collections[v].extra_fields.years) :
                                 v \in VariablesOf(ti)}

\* C6 witness: a Theme with two Variable children, products under it.
C6_Witness ==
    /\ pc = "done"
    /\ \E ti \in Indices(theme_collections) :
          /\ Cardinality(VariablesOf(ti)) = 2
          /\ theme_collections[ti].extra_fields.numberOfProducts = 2
          /\ \E v \in VariablesOf(ti) :
                 variable_collections[v].extra_fields.numberOfProducts = 1

\* the depth get_geometry is documented to branch on: the nesting along the
\* first elements; -1 when that path ends in an empty array
RECURSIVE NestingDepth(_)
NestingDepth(v) ==
    IF v.t # "list" THEN 0
    ELSE IF v.v = <<>> THEN -1
    ELSE LET inner == NestingDepth(v.v[1])
         IN  IF inner = -1 THEN -1 ELSE inner + 1

GeometryAsClaimed(source, geom) ==
    IF source.kind # "json" THEN geom = None
    ELSE IF NestingDepth(source.value) = 1 THEN geom.kind = "Point"
    ELSE IF NestingDepth(source.value) = 3
         THEN /\ geom.kind = "Polygon"
              /\ geom.shell = Head(source.value.v)
              /\ geom.holes = Tail(source.value.v)
    ELSE geom = None

\* C7: geometry parsing never raises; every source that is not a depth-1
\* or depth-3 array gives no geometry, depth 1 a Point, depth 3 a Polygon
\* of shell and holes.
C7_GeometryNeverRaises ==
    (PastBuild /\ \A k \in Indices(products) :
                     products[k].Start = EmptyField /\ products[k].End = EmptyField)
    => /\ ~BuildFailed
       /\ \A k \in Indices(product_items) :
              GeometryAsClaimed(products[k].Polygon, product_items[k].geometry)

\* a fatal condition of the tables or of the output directory
FatalCondition ==
    \/ fs0.exists
    \/ \E v \in Indices(variables) : UnresolvedVariable(v)
    \/ \E j \in Indices(projects) : UnresolvedProject(j)

\* C8: a run with a fatal condition never writes: it does not get to the
\* writing statements and the output directory stays as it was.
C8_FatalBeforeOutput ==
    FatalCondition => ~WroteOutput /\ fs = fs0

\* C8 witness: the run stopped at an output directory that was there, with
\* its old files untouched.
C8_Witness ==
    /\ pc = "aborted"
    /\ error = "FileExistsError"
    /\ fs0 = UsedDir
    /\ fs = UsedDir

DateAsClaimed(field, date) ==
    IF field.kind = "empty" THEN date.kind = "None"
    ELSE /\ date.kind # "None"
         /\ date.year = field.year
         /\ date.month = field.month + 1
         /\ date.day = 1

ClaimedMonth(field) == field.kind = "empty" \/ field.month \in 1..12

\* C9: a Start (End) field "Y.M" with M in 1..12 gives, without raising,
\* the first day of month M+1 of year Y; an empty field gives no date.
C9_DatePlusOneMonth ==
    (PastBuild /\ \A k \in Indices(products) :
                     /\ ClaimedMonth(products[k].Start)
                     /\ ClaimedMonth(products[k].End)
                     /\ products[k].Polygon = EmptySource)
    => /\ ~BuildFailed
       /\ \A k \in Indices(product_items) :
              /\ DateAsClaimed(products[k].Start, product_items[k].datetime)
              /\ DateAsClaimed(products[k].Start,
                               product_items[k].properties.start_datetime)
              /\ DateAsClaimed(products[k].End,
                               product_items[k].properties.end_datetime)

\* C10: no built catalog has two Themes with the same normalized key.
C10_ThemeKeysUnique ==
    pc = "done" =>
        \A i, j \in Indices(theme_collections) :
            slugify(theme_collections[i].id) = slugify(theme_collections[j].id)
                => i = j

====
